---- MODULE Spec2Model ----
(***************************************************************************)
(* Headless Commerce API (src/main.py): the product, cart, order,          *)
(* reminders and webhook_log collections of the document store and the     *)
(* request handlers that read and write them.                              *)
(*                                                                         *)
(* Money is counted in mills (1/1000 of a currency unit), so 49.99 is      *)
(* 49990 and 0.125 is 125.  A string that the handlers hand to ObjectId()  *)
(* is a record [wf, n]: wf says whether it is a well-formed 24-hex-digit   *)
(* identifier, n is the identifier it spells.  An ObjectId is a record     *)
(* [c, k]: the k-th identifier generated for collection c.                 *)
(*                                                                         *)
(* The database module (database.py: db, create_document) is not part of   *)
(* the sources at hand: create_document is modelled as the insert that     *)
(* returns a new identifier, and db as a connected database.               *)
(*                                                                         *)
(* resp is the response of the step just taken (None after a step that     *)
(* answers no catalog, cart, checkout, reminder or webhook request) and    *)
(* carries the request's arguments next to the status and body.  overlap   *)
(* and seedCalls record the history of the seed requests: whether two of   *)
(* them were ever in flight together, and how many were made.              *)
(***************************************************************************)
EXTENDS Integers, Sequences, FiniteSets, TLC

VARIABLES product, cart, order, reminders, webhook_log,
          pc, idx, newid, created, seedResp,
          resp, now, overlap, seedCalls, priceChanges

stores == <<product, cart, order, reminders, webhook_log>>
seedvars == <<pc, idx, newid, created, seedResp, overlap, seedCalls>>
vars == <<product, cart, order, reminders, webhook_log,
          pc, idx, newid, created, seedResp,
          resp, now, overlap, seedCalls, priceChanges>>

\* ------------------------------------------------------------------ bounds

\* POST /seed requests accepted in one run.
MaxSeedCalls == 3

\* POST /seed requests accepted while the catalog is read.
CatalogSeedCalls == 2

\* Price changes by the outside writer in one run.
MaxPriceChanges == 1

\* Documents per collection.
MaxCarts == 1
MaxOrders == 2
MaxReminders == 2
MaxLogReminders == 1
MaxLogs == 2

\* Hours the clock advances in one run.
MaxTime == 1

\* The workers that serve POST /seed: two, the fewest that can overlap.
Seeders == {1, 2}

None == [none |-> TRUE]

\* ------------------------------------------------------------- identifiers

\* str(ObjectId): the 24-hex-digit string of an identifier.
Str(oid) == [wf |-> TRUE, n |-> oid]

\* bson.ObjectId.is_valid: ObjectId(s) raises InvalidId unless s is well formed.
IsValidObjectId(s) == s.wf

\* ObjectId(s) for a well-formed s.
ObjectId(s) == s.n

\* An identifier that the store never generates.
NoObjectId == [c |-> "none", k |-> 0]

\* A string that is no 24-hex-digit identifier, such as "abc".
MalformedId == [wf |-> FALSE, n |-> NoObjectId]

\* A well-formed identifier string that names no document.
UnknownId == Str(NoObjectId)

\* The identifier the driver generates for the next document of a
\* collection: unique over all collections, since it carries the
\* collection's name and no document is ever deleted.
NewObjectId(name, coll) == [c |-> name, k |-> Len(coll) + 1]

\* --------------------------------------------------------------- seed data

seed_products == <<
    [title |-> "Portable Blender Pro X",   category |-> "Fitness",
     price |-> 49990, trend_score |-> 89],
    [title |-> "Pet Hair Eraser Turbo",    category |-> "Pet",
     price |-> 69990, trend_score |-> 91],
    [title |-> "LED Galaxy Projector 2.0", category |-> "Lifestyle",
     price |-> 49990, trend_score |-> 87],
    [title |-> "Smart Posture Corrector",  category |-> "Tech",
     price |-> 59990, trend_score |-> 90],
    [title |-> "AeroBrew Kettle",          category |-> "Kitchen",
     price |-> 69990, trend_score |-> 86] >>

SeedTitles == {seed_products[i].title : i \in 1..Len(seed_products)}

\* ------------------------------------------------------------- persistence

\* db[collection].find_one({"_id": oid}): the first document with that id.
FindById(coll, oid) ==
    IF \E i \in 1..Len(coll) : coll[i]._id = oid
    THEN coll[CHOOSE i \in 1..Len(coll) :
                 /\ coll[i]._id = oid
                 /\ \A j \in 1..(i - 1) : coll[j]._id # oid]
    ELSE None

\* The title lookup that never finds a document.
FindByTitleAbsent(coll, t) == None

\* db["product"].find_one({"title": t}): the first document with that title.
FindByTitle(coll, t) ==
    IF \E i \in 1..Len(coll) : coll[i].title = t
    THEN coll[CHOOSE i \in 1..Len(coll) :
                 /\ coll[i].title = t
                 /\ \A j \in 1..(i - 1) : coll[j].title # t]
    ELSE None

\* create_document(collection, data): the collection with the document
\* appended under a newly generated identifier.
create_document(coll, data, oid) == Append(coll, [_id |-> oid] @@ data)

\* _to_product(doc): the response model of a stored product.
ToProduct(doc) ==
    [id |-> Str(doc._id), title |-> doc.title, category |-> doc.category,
     price |-> doc.price, trend_score |-> doc.trend_score]

\* ----------------------------------------------------------------- seeding

\* POST /seed arrives at worker p.
SeedBegin(p) ==
    /\ pc[p] = "idle"
    /\ seedCalls' = seedCalls + 1
    /\ overlap' = (overlap \/ \E q \in Seeders : q # p /\ pc[q] # "idle")
    /\ pc' = [pc EXCEPT ![p] = "find"]
    /\ idx' = [idx EXCEPT ![p] = 1]
    /\ created' = [created EXCEPT ![p] = <<>>]
    /\ seedResp' = [seedResp EXCEPT ![p] = None]
    /\ resp' = None
    /\ UNCHANGED <<stores, newid, now, priceChanges>>

\* The next position of the loop over seed_products after item i.
AfterItem(i) == IF i < Len(seed_products) THEN "find" ELSE "return"

\* The duplicate check without its continue: a product found by title is
\* returned and inserted again.
SeedFindNoContinue(p) ==
    /\ pc[p] = "find"
    /\ LET existing == FindByTitle(product, seed_products[idx[p]].title)
       IN  IF existing # None
           THEN created' = [created EXCEPT ![p] = Append(@, ToProduct(existing))]
           ELSE created' = created
    /\ pc' = [pc EXCEPT ![p] = "insert"]
    /\ resp' = None
    /\ UNCHANGED <<stores, idx, newid, seedResp, now, priceChanges, overlap, seedCalls>>

\* existing = find_one({"title": p.title}); if existing: append, continue.
SeedFind(p) ==
    /\ pc[p] = "find"
    /\ LET existing == FindByTitle(product, seed_products[idx[p]].title)
       IN  IF existing # None
           THEN /\ created' = [created EXCEPT ![p] = Append(@, ToProduct(existing))]
                /\ pc' = [pc EXCEPT ![p] = AfterItem(idx[p])]
                /\ idx' = [idx EXCEPT ![p] = @ + 1]
           ELSE /\ pc' = [pc EXCEPT ![p] = "insert"]
                /\ UNCHANGED <<created, idx>>
    /\ resp' = None
    /\ UNCHANGED <<stores, newid, seedResp, now, priceChanges, overlap, seedCalls>>

\* _id = create_document("product", p.model_dump())
SeedInsert(p) ==
    /\ pc[p] = "insert"
    /\ product' = create_document(product, seed_products[idx[p]], NewObjectId("product", product))
    /\ newid' = [newid EXCEPT ![p] = Str(NewObjectId("product", product))]
    /\ pc' = [pc EXCEPT ![p] = "reread"]
    /\ resp' = None
    /\ UNCHANGED <<cart, order, reminders, webhook_log, idx, created,
                   seedResp, now, priceChanges, overlap, seedCalls>>

\* doc = find_one({"_id": ObjectId(_id)}); created.append(_to_product(doc))
SeedReread(p) ==
    /\ pc[p] = "reread"
    /\ created' = [created EXCEPT
                     ![p] = Append(@, ToProduct(FindById(product, ObjectId(newid[p]))))]
    /\ pc' = [pc EXCEPT ![p] = AfterItem(idx[p])]
    /\ idx' = [idx EXCEPT ![p] = @ + 1]
    /\ resp' = None
    /\ UNCHANGED <<stores, newid, seedResp, now, priceChanges, overlap, seedCalls>>

\* return created
SeedReturn(p) ==
    /\ pc[p] = "return"
    /\ seedResp' = [seedResp EXCEPT ![p] = [status |-> 200, body |-> created[p]]]
    /\ pc' = [pc EXCEPT ![p] = "idle"]
    /\ idx' = [idx EXCEPT ![p] = 1]
    /\ created' = [created EXCEPT ![p] = <<>>]
    /\ newid' = [newid EXCEPT ![p] = UnknownId]
    /\ resp' = None
    /\ UNCHANGED <<stores, now, priceChanges, overlap, seedCalls>>

\* ----------------------------------------------------------------- catalog

\* An optional query parameter that was not given.  The handler tests its
\* parameters by truth value and by equality with "trend", under which a
\* missing parameter and the empty string behave alike.
NoParam == ""

\* {"$regex": q, "$options": "i"} against a title: the seed titles in which
\* the pattern is found, ignoring case.
RegexSearch(q, title) ==
    CASE q = "pro"  -> title \in {"Portable Blender Pro X", "LED Galaxy Projector 2.0"}
      [] q = "e"    -> title \in SeedTitles
      [] q = "zzz"  -> FALSE
      [] OTHER      -> FALSE

\* filter_q of list_products applied to one document.
MatchesFilter(doc, category, q) ==
    /\ category # NoParam => doc.category = category
    /\ q # NoParam => RegexSearch(q, doc.title)

\* db["product"].find(filter_q): the matching documents in store order.
RECURSIVE Find(_, _, _)
Find(coll, category, q) ==
    IF coll = <<>> THEN <<>>
    ELSE LET rest == Find(Tail(coll), category, q)
         IN  IF MatchesFilter(Head(coll), category, q)
             THEN <<Head(coll)>> \o rest
             ELSE rest

\* One element put into a list sorted by descending trend_score, behind
\* every element of the same score.
RECURSIVE InsertDesc(_, _)
InsertDesc(sorted, x) ==
    IF sorted = <<>> THEN <<x>>
    ELSE IF Head(sorted).trend_score >= x.trend_score
         THEN <<Head(sorted)>> \o InsertDesc(Tail(sorted), x)
         ELSE <<x>> \o sorted

\* One element put into a list sorted by descending trend_score, in front of
\* every element of the same score.
RECURSIVE InsertDescFront(_, _)
InsertDescFront(sorted, x) ==
    IF sorted = <<>> THEN <<x>>
    ELSE IF Head(sorted).trend_score > x.trend_score
         THEN <<Head(sorted)>> \o InsertDescFront(Tail(sorted), x)
         ELSE <<x>> \o sorted

RECURSIVE SortFrom(_, _)
SortFrom(done, rest) ==
    IF rest = <<>> THEN done
    ELSE SortFrom(InsertDesc(done, Head(rest)), Tail(rest))

RECURSIVE SortFromFront(_, _)
SortFromFront(done, rest) ==
    IF rest = <<>> THEN done
    ELSE SortFromFront(InsertDescFront(done, Head(rest)), Tail(rest))

\* The sort with the order of equal scores reversed, as sorting ascending and
\* reversing the list would give.
SortByTrendTiesReversed(items) == SortFromFront(<<>>, items)

\* items.sort(key=lambda x: x.trend_score, reverse=True): list.sort is stable,
\* and reverse=True keeps the original order of elements with equal keys.
SortByTrend(items) == SortFrom(<<>>, items)

\* GET /products
list_products(category, q, sort) ==
    /\ LET docs  == Find(product, category, q)
           items == [i \in 1..Len(docs) |-> ToProduct(docs[i])]
       IN  resp' = [op |-> "list_products", status |-> 200,
                    category |-> category, q |-> q, sort |-> sort,
                    body |-> IF sort = "trend" THEN SortByTrend(items) ELSE items]
    /\ UNCHANGED <<stores, seedvars, now, priceChanges>>

\* GET /products/{product_id}, with ObjectId(product_id) raising InvalidId
\* on a malformed id: FastAPI answers an unhandled exception with 500.
get_product(product_id) ==
    /\ IF ~IsValidObjectId(product_id)
       THEN resp' = [op |-> "get_product", status |-> 500, arg |-> product_id,
                     detail |-> "InvalidId"]
       ELSE LET doc == FindById(product, ObjectId(product_id))
            IN  IF doc = None
                THEN resp' = [op |-> "get_product", status |-> 404, arg |-> product_id,
                              detail |-> "Product not found"]
                ELSE resp' = [op |-> "get_product", status |-> 200, arg |-> product_id,
                              body |-> ToProduct(doc)]
    /\ UNCHANGED <<stores, seedvars, now, priceChanges>>

\* The identifiers a client may send: those of the stored documents of a
\* collection, one well-formed identifier that names nothing, one malformed.
ClientIds(coll) == {Str(coll[i]._id) : i \in 1..Len(coll)} \cup {UnknownId, MalformedId}

Categories == {NoParam, "Fitness", "Toys"}
Queries == {NoParam, "pro"}
Sorts == {NoParam, "trend", "price"}

\* -------------------------------------------------------------------- cart

\* The float arithmetic of the subtotal is exact when every price added is a
\* multiple of 1/8 (125 mills): such amounts and their small sums are binary
\* fractions.
Dyadic(price) == price % 125 = 0

\* The loop of create_cart over the items, from the subtotal so far: the
\* first item whose id is malformed raises InvalidId (500), the first whose
\* product is missing raises 404 naming it, otherwise the prices add up.
RECURSIVE CartLoop(_, _, _)
CartLoop(items, subtotal, exact) ==
    IF items = <<>> THEN [status |-> 200, subtotal |-> subtotal, exact |-> exact]
    ELSE LET it == Head(items)
         IN  IF ~IsValidObjectId(it.product_id)
             THEN [status |-> 500, detail |-> it.product_id]
             ELSE LET doc == FindById(product, ObjectId(it.product_id))
                  IN  IF doc = None
                      THEN [status |-> 404, detail |-> it.product_id]
                      ELSE CartLoop(Tail(items),
                                    subtotal + doc.price * it.quantity,
                                    exact /\ Dyadic(doc.price))

\* round(subtotal, 2) of a float: the nearest multiple of 0.01 to the value
\* the float holds.  Off a tie that is the nearest cent.  On a tie of an
\* exact sum the float holds the tie itself and Python rounds it to the even
\* cent; on a tie of an inexact sum the float lies a rounding error to one
\* side of it, and either neighbour can result.
Round2(subtotal, exact) ==
    LET lo == (subtotal \div 10) * 10
        r  == subtotal % 10
    IN  IF r < 5 THEN {lo}
        ELSE IF r > 5 THEN {lo + 10}
        ELSE IF exact THEN {IF (lo \div 10) % 2 = 0 THEN lo ELSE lo + 10}
        ELSE {lo, lo + 10}

\* Cart(id=str(cart_doc["_id"]), ...): the response model of a stored cart.
ToCart(doc) ==
    [id |-> Str(doc._id), items |-> doc.items, currency |-> doc.currency,
     subtotal |-> doc.subtotal, created_at |-> doc.created_at]

\* POST /cart
create_cart(items) ==
    /\ LET r == CartLoop(items, 0, TRUE)
       IN  IF r.status # 200
           THEN /\ resp' = [op |-> "create_cart", status |-> r.status,
                            items |-> items, detail |-> r.detail]
                /\ cart' = cart
           ELSE \E rounded \in Round2(r.subtotal, r.exact) :
                /\ cart' = create_document(cart,
                               [items |-> items, currency |-> "USD",
                                subtotal |-> rounded, created_at |-> now],
                               NewObjectId("cart", cart))
                /\ resp' = [op |-> "create_cart", status |-> 200, items |-> items,
                            body |-> ToCart(FindById(cart', NewObjectId("cart", cart)))]
    /\ UNCHANGED <<product, order, reminders, webhook_log, seedvars, now, priceChanges>>

\* ---------------------------------------------------------------- checkout

\* The total computed anew from the prices the products have now.
OrderTotalRecomputed(cart_doc) ==
    CHOOSE t \in Round2(CartLoop(cart_doc.items, 0, TRUE).subtotal, TRUE) : TRUE

\* total = cart_doc["subtotal"]
OrderTotal(cart_doc) == cart_doc.subtotal

\* Order(id=str(order_doc["_id"]), ...): the response model of a stored order.
ToOrder(doc) ==
    [id |-> Str(doc._id), cart_id |-> doc.cart_id, email |-> doc.email,
     total |-> doc.total, currency |-> doc.currency,
     payment_method |-> doc.payment_method, status |-> doc.status,
     created_at |-> doc.created_at]

\* POST /checkout
checkout(req) ==
    /\ IF ~IsValidObjectId(req.cart_id)
       THEN /\ resp' = [op |-> "checkout", status |-> 500, req |-> req,
                        detail |-> "InvalidId"]
            /\ order' = order
       ELSE LET cart_doc == FindById(cart, ObjectId(req.cart_id))
            IN  IF cart_doc = None
                THEN /\ resp' = [op |-> "checkout", status |-> 404, req |-> req,
                                 detail |-> "Cart not found"]
                     /\ order' = order
                ELSE /\ order' = create_document(order,
                                    [cart_id |-> req.cart_id, email |-> req.email,
                                     total |-> OrderTotal(cart_doc),
                                     currency |-> cart_doc.currency,
                                     payment_method |-> req.payment_method,
                                     status |-> "pending", created_at |-> now],
                                    NewObjectId("order", order))
                     /\ resp' = [op |-> "checkout", status |-> 200, req |-> req,
                                 body |-> ToOrder(FindById(order', NewObjectId("order", order)))]
    /\ UNCHANGED <<product, cart, reminders, webhook_log, seedvars, now, priceChanges>>

\* ------------------------------------------------- reminders and webhooks

\* timedelta(hours=3)
ReminderHours == 3

\* The reminder scheduled only for a cart that exists, 404 otherwise.
send_abandoned_cart_checked(cart_id) ==
    /\ IF IsValidObjectId(cart_id) /\ FindById(cart, ObjectId(cart_id)) # None
       THEN /\ reminders' = create_document(reminders,
                                [cart_id |-> cart_id, type |-> "abandoned_cart",
                                 scheduled_for |-> now + 3],
                                NewObjectId("reminders", reminders))
            /\ resp' = [op |-> "send_abandoned_cart", status |-> 200,
                        cart_id |-> cart_id,
                        body |-> [scheduled |-> TRUE,
                                  id |-> Str(NewObjectId("reminders", reminders))]]
       ELSE /\ reminders' = reminders
            /\ resp' = [op |-> "send_abandoned_cart", status |-> 404,
                        cart_id |-> cart_id, detail |-> "Cart not found"]
    /\ UNCHANGED <<product, cart, order, webhook_log, seedvars, now, priceChanges>>

\* POST /abandoned/{cart_id}
send_abandoned_cart(cart_id) ==
    /\ reminders' = create_document(reminders,
                        [cart_id |-> cart_id, type |-> "abandoned_cart",
                         scheduled_for |-> now + ReminderHours],
                        NewObjectId("reminders", reminders))
    /\ resp' = [op |-> "send_abandoned_cart", status |-> 200, cart_id |-> cart_id,
                body |-> [scheduled |-> TRUE, id |-> Str(NewObjectId("reminders", reminders))]]
    /\ UNCHANGED <<product, cart, order, webhook_log, seedvars, now, priceChanges>>

\* The webhook logged only for one known provider, acknowledged otherwise.
payment_webhook_known_only(provider, payload) ==
    /\ webhook_log' = IF provider = "stripe"
                      THEN create_document(webhook_log,
                               [provider |-> provider, payload |-> payload],
                               NewObjectId("webhook_log", webhook_log))
                      ELSE webhook_log
    /\ resp' = [op |-> "payment_webhook", status |-> 200,
                provider |-> provider, payload |-> payload,
                body |-> [logged |-> TRUE,
                          id |-> Str(NewObjectId("webhook_log", webhook_log))]]
    /\ UNCHANGED <<product, cart, order, reminders, seedvars, now, priceChanges>>

\* POST /webhooks/{provider}
payment_webhook(provider, payload) ==
    /\ webhook_log' = create_document(webhook_log,
                          [provider |-> provider, payload |-> payload],
                          NewObjectId("webhook_log", webhook_log))
    /\ resp' = [op |-> "payment_webhook", status |-> 200,
                provider |-> provider, payload |-> payload,
                body |-> [logged |-> TRUE, id |-> Str(NewObjectId("webhook_log", webhook_log))]]
    /\ UNCHANGED <<product, cart, order, reminders, seedvars, now, priceChanges>>

\* ------------------------------------------------------------- environment

\* datetime.now(timezone.utc) moves on by an hour.
Tick ==
    /\ now' = now + 1
    /\ resp' = None
    /\ UNCHANGED <<stores, seedvars, priceChanges>>

\* The target_price of the i-th stored product is set to v by a writer
\* outside this program: the store is shared and takes no lock.
ExternalPriceChange(i, v) ==
    /\ i \in 1..Len(product)
    /\ product[i].price # v
    /\ product' = [product EXCEPT ![i].price = v]
    /\ priceChanges' = priceChanges + 1
    /\ resp' = None
    /\ UNCHANGED <<cart, order, reminders, webhook_log, seedvars, now>>

\* ------------------------------------------------------------------ inputs

\* Request bodies of POST /cart: lists of items, each a client id and
\* a quantity (CartItem.quantity >= 1).
Quantities == {1, 2}
CartItems == [product_id : ClientIds(product), quantity : Quantities]
ItemLists(lengths) == UNION {[1..n -> CartItems] : n \in lengths}
CartLengths == {0, 1, 2}
ShortLengths == {0, 1}

Emails == {"a@example.com"}
PaymentMethods == {"stripe"}
CheckoutRequests ==
    [cart_id : ClientIds(cart), email : Emails, payment_method : PaymentMethods]

Providers == {"stripe", "payfast"}
Payloads == {[event |-> "paid"], [event |-> "refund", amount |-> 5]}

\* The price the outside writer sets: 0.125, which no whole number of cents
\* equals.
PriceChoices == {125}

Init ==
    /\ product = <<>>
    /\ cart = <<>>
    /\ order = <<>>
    /\ reminders = <<>>
    /\ webhook_log = <<>>
    /\ pc = [p \in Seeders |-> "idle"]
    /\ idx = [p \in Seeders |-> 1]
    /\ newid = [p \in Seeders |-> UnknownId]
    /\ created = [p \in Seeders |-> <<>>]
    /\ seedResp = [p \in Seeders |-> None]
    /\ resp = None
    /\ now = 0
    /\ overlap = FALSE
    /\ seedCalls = 0
    /\ priceChanges = 0

Next ==
    \/ \E p \in Seeders : seedCalls < MaxSeedCalls /\ SeedBegin(p)
    \/ \E p \in Seeders : SeedFind(p)
    \/ \E p \in Seeders : SeedInsert(p)
    \/ \E p \in Seeders : SeedReread(p)
    \/ \E p \in Seeders : SeedReturn(p)

Spec == Init /\ [][Next]_vars

\* The catalog is read during the first seed request and whenever no seed
\* request is in flight.
CatalogOpen == seedCalls <= 1 \/ \A p \in Seeders : pc[p] = "idle"

NextCatalog ==
    \/ \E p \in Seeders : seedCalls < CatalogSeedCalls /\ SeedBegin(p)
    \/ \E p \in Seeders : SeedFind(p)
    \/ \E p \in Seeders : SeedInsert(p)
    \/ \E p \in Seeders : SeedReread(p)
    \/ \E p \in Seeders : SeedReturn(p)
    \/ \E c \in Categories, q \in Queries, s \in Sorts :
          CatalogOpen /\ list_products(c, q, s)
    \/ \E id \in ClientIds(product) : CatalogOpen /\ get_product(id)

CatalogSpec == Init /\ [][NextCatalog]_vars

\* No seed request is in flight.
SeedIdle == \A p \in Seeders : pc[p] = "idle"

\* One worker seeds, once; around the seed request prices move and carts are
\* made.
NextCart ==
    \/ seedCalls = 0 /\ SeedBegin(1)
    \/ SeedFind(1)
    \/ SeedInsert(1)
    \/ SeedReread(1)
    \/ SeedReturn(1)
    \/ \E i \in 1..Len(product), v \in PriceChoices :
          SeedIdle /\ priceChanges < MaxPriceChanges /\ ExternalPriceChange(i, v)
    \/ \E items \in ItemLists(CartLengths) :
          SeedIdle /\ Len(cart) < MaxCarts /\ create_cart(items)

CartSpec == Init /\ [][NextCart]_vars

\* One worker seeds, once; around the seed request prices move, carts of at
\* most one item are made and carts are checked out.
NextCheckout ==
    \/ seedCalls = 0 /\ SeedBegin(1)
    \/ SeedFind(1)
    \/ SeedInsert(1)
    \/ SeedReread(1)
    \/ SeedReturn(1)
    \/ \E i \in 1..Len(product), v \in PriceChoices :
          SeedIdle /\ priceChanges < MaxPriceChanges /\ ExternalPriceChange(i, v)
    \/ \E items \in ItemLists(ShortLengths) :
          SeedIdle /\ Len(cart) < MaxCarts /\ create_cart(items)
    \/ \E req \in CheckoutRequests :
          SeedIdle /\ Len(order) < MaxOrders /\ checkout(req)

CheckoutSpec == Init /\ [][NextCheckout]_vars

\* One worker seeds, once; around the seed request carts of at most one item
\* are made, reminders are scheduled and the clock moves.
NextReminder ==
    \/ seedCalls = 0 /\ SeedBegin(1)
    \/ SeedFind(1)
    \/ SeedInsert(1)
    \/ SeedReread(1)
    \/ SeedReturn(1)
    \/ \E items \in ItemLists(ShortLengths) :
          SeedIdle /\ Len(cart) < MaxCarts /\ create_cart(items)
    \/ \E id \in ClientIds(cart) :
          SeedIdle /\ Len(reminders) < MaxReminders /\ send_abandoned_cart(id)
    \/ SeedIdle /\ now < MaxTime /\ Tick

ReminderSpec == Init /\ [][NextReminder]_vars

\* Webhooks are logged while carts are made and reminders are scheduled.
NextWebhook ==
    \/ \E pr \in Providers, pl \in Payloads :
          Len(webhook_log) < MaxLogs /\ payment_webhook(pr, pl)
    \/ \E items \in ItemLists(ShortLengths) :
          Len(cart) < MaxCarts /\ create_cart(items)
    \/ \E id \in ClientIds(cart) :
          Len(reminders) < MaxLogReminders /\ send_abandoned_cart(id)

WebhookSpec == Init /\ [][NextWebhook]_vars

\* ------------------------------------------------------------------ claims

\* The number of stored products with title t.
TitleCount(t) == Cardinality({i \in 1..Len(product) : product[i].title = t})

\* The seed requests that have returned.
SeedCompleted == seedCalls - Cardinality({p \in Seeders : pc[p] # "idle"})

\* The stored products as a seed request returns them.
StoredProducts == [i \in 1..Len(product) |-> ToProduct(product[i])]

\* C4: when seed requests never overlap, then once one of them has returned
\* the product collection holds exactly one product per seed title, no later
\* request reaches its insert, and every response is the list of the stored
\* products, the same for every request (same ids, same fields).
SeedIdempotentSequential ==
    (~overlap /\ SeedCompleted >= 1) =>
        /\ Len(product) = Len(seed_products)
        /\ \A t \in SeedTitles : TitleCount(t) = 1
        /\ \A p \in Seeders : pc[p] \notin {"insert", "reread"}
        /\ \A p \in Seeders : seedResp[p] # None =>
               /\ seedResp[p].status = 200
               /\ seedResp[p].body = StoredProducts
        /\ \A p \in Seeders : pc[p] # "idle" =>
               created[p] = SubSeq(StoredProducts, 1, Len(created[p]))

\* C4 witness: three seed requests were made one after the other, two
\* responses are at hand and the third request has returned.
SeedIdempotentWitness ==
    /\ ~overlap
    /\ seedCalls = 3
    /\ SeedCompleted = 3
    /\ \A p \in Seeders : seedResp[p] # None
    /\ Len(product) = Len(seed_products)

\* C9: a title is stored twice only if two seed requests overlapped, and
\* then at most once per worker: every insert of a title follows a read
\* that found the title absent, and a worker has one such read at a time.
DuplicateTitleOnlyByRace ==
    /\ (\E t \in SeedTitles : TitleCount(t) > 1) => overlap
    /\ \A t \in SeedTitles : TitleCount(t) <= Cardinality(Seeders)

\* C9 witness: two seed requests interleaved, both read the first seed title
\* as absent and both inserted it.
DuplicateTitleWitness ==
    /\ overlap
    /\ TitleCount(seed_products[1].title) = 2
    /\ \A p \in Seeders : pc[p] = "reread" /\ idx[p] = 1

\* The products a list_products request matches, in store order.
Matching(category, q) ==
    SelectSeq(product, LAMBDA d : MatchesFilter(d, category, q))

\* The position in the store of the product with the given id string.
StorePos(id) == CHOOSE i \in 1..Len(product) : Str(product[i]._id) = id

\* C6: list_products with sort="trend" returns the matching products, each
\* once, in non-increasing trend_score order with equal scores in store order;
\* with any other sort it returns them in store order.
ListProductsOrder ==
    (resp # None /\ resp.op = "list_products") =>
        LET m    == Matching(resp.category, resp.q)
            body == resp.body
        IN  IF resp.sort = "trend"
            THEN /\ Len(body) = Len(m)
                 /\ {body[i] : i \in 1..Len(body)} = {ToProduct(m[i]) : i \in 1..Len(m)}
                 /\ \A i, j \in 1..Len(body) : i < j =>
                        /\ body[i].trend_score >= body[j].trend_score
                        /\ body[i].trend_score = body[j].trend_score =>
                               StorePos(body[i].id) < StorePos(body[j].id)
            ELSE body = [i \in 1..Len(m) |-> ToProduct(m[i])]

\* C6 witness: a trend-sorted listing that holds two products of one score
\* next to products of other scores, in an order that is not the store's.
ListProductsWitness ==
    /\ resp # None
    /\ resp.op = "list_products"
    /\ resp.sort = "trend"
    /\ Len(resp.body) >= 4
    /\ \E i, j \in 1..Len(resp.body) :
           i # j /\ resp.body[i].trend_score = resp.body[j].trend_score
    /\ resp.body # [i \in 1..Len(Matching(resp.category, resp.q)) |->
                       ToProduct(Matching(resp.category, resp.q)[i])]

\* C5 as claimed: get_product answers 200 with the product of that id when
\* one is stored, and 404 otherwise, a malformed id included.
GetProductNotFoundOrFound ==
    (resp # None /\ resp.op = "get_product") =>
        IF \E i \in 1..Len(product) : Str(product[i]._id) = resp.arg
        THEN resp.status = 200 /\ resp.body.id = resp.arg
        ELSE resp.status = 404

\* The sum over the items of a cart request of the product's price now times
\* the quantity, every id naming a stored product.
RECURSIVE LineSum(_)
LineSum(items) ==
    IF items = <<>> THEN 0
    ELSE FindById(product, ObjectId(Head(items).product_id)).price * Head(items).quantity
         + LineSum(Tail(items))

\* x rounded to a whole number of cents, a half cent going up.
HalfUp(x) == ((x + 5) \div 10) * 10

\* C1 as claimed: a create_cart that succeeds stores and returns as subtotal
\* the sum of current price times quantity, rounded once to cents half-up.
CartSubtotalHalfUp ==
    (resp # None /\ resp.op = "create_cart" /\ resp.status = 200) =>
        /\ resp.body.subtotal = HalfUp(LineSum(resp.items))
        /\ cart[Len(cart)].subtotal = HalfUp(LineSum(resp.items))

\* The item's product id names no stored product.
Unresolved(it) ==
    \A i \in 1..Len(product) : Str(product[i]._id) # it.product_id

\* C2 as claimed: a create_cart with an item whose product id is not in the
\* store answers 404 naming such an id, and leaves the cart collection as
\* it was.
CartUnknownProductNotFound ==
    [][(resp' # None /\ resp'.op = "create_cart"
           /\ \E k \in 1..Len(resp'.items) : Unresolved(resp'.items[k]))
       => /\ resp'.status = 404
          /\ \E k \in 1..Len(resp'.items) :
                 Unresolved(resp'.items[k]) /\ resp'.detail = resp'.items[k].product_id
          /\ UNCHANGED stores]_vars

\* C3: every stored order names a stored cart and its total is that cart's
\* stored subtotal, whatever the products cost now.
OrderTotalIsCartSubtotal ==
    \A i \in 1..Len(order) :
        /\ IsValidObjectId(order[i].cart_id)
        /\ FindById(cart, ObjectId(order[i].cart_id)) # None
        /\ order[i].total = FindById(cart, ObjectId(order[i].cart_id)).subtotal

\* C3 witness: a checkout has just succeeded on a cart whose product changed
\* price after the cart was made: the total differs from what the prices
\* give now.
OrderTotalWitness ==
    /\ resp # None
    /\ resp.op = "checkout"
    /\ resp.status = 200
    /\ resp.body.total > 0
    /\ resp.body.total #
           OrderTotalRecomputed(FindById(cart, ObjectId(resp.body.cart_id)))

\* C8 as claimed: a checkout of an existing cart adds one order with a new
\* id, status "pending" and the cart's subtotal as total, however often it
\* is repeated; a checkout whose cart_id names no cart answers 404 and adds
\* no order.
CheckoutNoIdempotency ==
    [][(resp' # None /\ resp'.op = "checkout")
       => IF \E i \in 1..Len(cart) : Str(cart[i]._id) = resp'.req.cart_id
          THEN /\ resp'.status = 200
               /\ Len(order') = Len(order) + 1
               /\ SubSeq(order', 1, Len(order)) = order
               /\ \A i \in 1..Len(order) : order[i]._id # order'[Len(order')]._id
               /\ order'[Len(order')].status = "pending"
               /\ order'[Len(order')].total =
                      FindById(cart, ObjectId(resp'.req.cart_id)).subtotal
          ELSE /\ resp'.status = 404
               /\ order' = order]_vars

\* C7: no step removes or alters a webhook log record, and a webhook request
\* appends exactly one record under a new id, answers 200 with that id, and
\* the record found under the id holds the provider and the payload sent.
WebhookAppendOnly ==
    [][/\ Len(webhook_log') >= Len(webhook_log)
       /\ SubSeq(webhook_log', 1, Len(webhook_log)) = webhook_log
       /\ (resp' # None /\ resp'.op = "payment_webhook") =>
             /\ resp'.status = 200
             /\ Len(webhook_log') = Len(webhook_log) + 1
             /\ \A i \in 1..Len(webhook_log) :
                    Str(webhook_log[i]._id) # resp'.body.id
             /\ IsValidObjectId(resp'.body.id)
             /\ FindById(webhook_log', ObjectId(resp'.body.id)) # None
             /\ FindById(webhook_log', ObjectId(resp'.body.id)).provider = resp'.provider
             /\ FindById(webhook_log', ObjectId(resp'.body.id)).payload = resp'.payload]_vars

\* C7 witness: a second webhook, of another provider and payload than the
\* first, has just been logged.
WebhookWitness ==
    /\ resp # None
    /\ resp.op = "payment_webhook"
    /\ Len(webhook_log) = 2
    /\ webhook_log[1].provider # webhook_log[2].provider
    /\ webhook_log[1].payload # webhook_log[2].payload
    /\ resp.body.id = Str(webhook_log[2]._id)

\* C10: an abandoned-cart request, whatever its cart_id, answers 200, appends
\* one reminder of type "abandoned_cart" for that cart_id scheduled three
\* hours after the request, keeps the earlier reminders and changes no
\* product, cart or order.
AbandonedCartAlwaysSchedules ==
    [][(resp' # None /\ resp'.op = "send_abandoned_cart")
       => /\ resp'.status = 200
          /\ Len(reminders') = Len(reminders) + 1
          /\ SubSeq(reminders', 1, Len(reminders)) = reminders
          /\ Str(reminders'[Len(reminders')]._id) = resp'.body.id
          /\ reminders'[Len(reminders')].cart_id = resp'.cart_id
          /\ reminders'[Len(reminders')].type = "abandoned_cart"
          /\ reminders'[Len(reminders')].scheduled_for = now + 3
          /\ UNCHANGED <<product, cart, order>>]_vars

\* C10 witness: two reminders stand for a cart_id that names no cart, the
\* second just scheduled an hour after the first, while a cart of a seeded
\* product is stored.
AbandonedCartWitness ==
    /\ resp # None
    /\ resp.op = "send_abandoned_cart"
    /\ resp.status = 200
    /\ Len(reminders) = 2
    /\ reminders[1].cart_id = reminders[2].cart_id
    /\ \A i \in 1..Len(cart) : Str(cart[i]._id) # reminders[2].cart_id
    /\ reminders[2].scheduled_for = reminders[1].scheduled_for + 1
    /\ Len(cart) = 1
    /\ cart[1].subtotal > 0

====
